---- MODULE Spec2Model ----
(***************************************************************************)
(* Model of src/xy.rs: the generic two-axis container XY<T> and its        *)
(* combinators.                                                            *)
(*                                                                         *)
(* An XY<T> is a record [x |-> _, y |-> _].  A Rust 2-tuple (a, b) is the  *)
(* TLA+ tuple <<a, b>>.  Option<T> is a sequence of length at most one:    *)
(* None is <<>>, Some(u) is <<u>>.  A `&mut T` into an XY is the name of   *)
(* the field it designates ("x" or "y").                                   *)
(*                                                                         *)
(* A closure is a TLA+ function.  A closure call is an observable event,   *)
(* so every closure maps its arguments to a record [val |-> result,        *)
(* calls |-> the arguments of the caller-supplied closure's invocations,   *)
(* in evaluation order], and so does every method that takes a closure.    *)
(***************************************************************************)
EXTENDS Integers, Sequences

VARIABLES v, other, cond, op, inp, res, calls, written

vars == <<v, other, cond, op, inp, res, calls, written>>

\* Largest element value drawn for the element type T.
MaxVal == 3

Val == 0..MaxVal

Orientation == {"Horizontal", "Vertical"}

\* ---------------------------------------------------------------------
\* Closures
\* ---------------------------------------------------------------------

\* Result of a computation that invokes no caller-supplied closure.
Ret(value) == [val |-> value, calls |-> <<>>]

\* The caller-supplied unary closure computing fn: a call on a is logged.
Closure(fn) == [a \in DOMAIN fn |-> [val |-> fn[a], calls |-> <<a>>]]

\* The caller-supplied binary closure computing fn: a call on (a, b) is
\* logged.
Closure2(fn) == [p \in DOMAIN fn |-> [val |-> fn[p], calls |-> <<p>>]]

\* Unary closures the callers pass: negation, successor, a constant.
Negate == [a \in Val |-> 0 - a]
Succ == [a \in Val |-> a + 1]
Seven == [a \in Val |-> 7]
UnaryFns == {Negate, Succ, Seven}

\* Binary closures the callers pass: subtraction (argument order shows),
\* an injective encoding of both arguments, and the second projection.
Sub == [a \in Val, b \in Val |-> a - b]
Enc == [a \in Val, b \in Val |-> (10 * a) + b]
Snd == [a \in Val, b \in Val |-> b]
BinaryFns == {Sub, Enc, Snd}

\* Option<T>
None == <<>>
Some(u) == <<u>>

\* Option::unwrap_or
Option_unwrap_or(opt, default) ==
    IF opt = None THEN default ELSE opt[1]

\* BitOr::bitor / BitAnd::bitand on bool
BitOr_bitor == [a \in BOOLEAN, b \in BOOLEAN |-> Ret(a \/ b)]
BitAnd_bitand == [a \in BOOLEAN, b \in BOOLEAN |-> Ret(a /\ b)]

\* ---------------------------------------------------------------------
\* impl<T> XY<T>
\* ---------------------------------------------------------------------

new(x, y) == [x |-> x, y |-> y]

XYVal == {new(a, b) : a \in Val, b \in Val}

\* #[derive(Clone)]
clone(self) == [x |-> self.x, y |-> self.y]

fold(self, f) == f[self.x, self.y]

\* map that applies f to x for both fields.
map_x_twice(self, f) ==
    LET rx == f[self.x]
        ry == f[self.x]
    IN  [val |-> new(rx.val, ry.val), calls |-> rx.calls \o ry.calls]

map(self, f) ==
    LET rx == f[self.x]
        ry == f[self.y]
    IN  [val |-> new(rx.val, ry.val), calls |-> rx.calls \o ry.calls]

\* pair with the components in the opposite order.
pair_swapped(self) == <<self.y, self.x>>

pair(self) == <<self.x, self.y>>

get(self, o) ==
    CASE o = "Horizontal" -> self.x
      [] o = "Vertical" -> self.y

\* get_mut with the match arms exchanged.
get_mut_crossed(self, o) ==
    CASE o = "Horizontal" -> "y"
      [] o = "Vertical" -> "x"

\* The returned `&mut T` is the field it borrows.
get_mut(self, o) ==
    CASE o = "Horizontal" -> "x"
      [] o = "Vertical" -> "y"

zip(self, other_) == new(<<self.x, other_.x>>, <<self.y, other_.y>>)

\* zip_map that pairs self's y with other's x.
zip_map_cross(self, other_, f) ==
    LET rx == f[self.x, other_.x]
        ry == f[self.y, other_.x]
    IN  [val |-> new(rx.val, ry.val), calls |-> rx.calls \o ry.calls]

zip_map(self, other_, f) ==
    LET rx == f[self.x, other_.x]
        ry == f[self.y, other_.y]
    IN  [val |-> new(rx.val, ry.val), calls |-> rx.calls \o ry.calls]

\* map_if that calls f on every axis and discards the unwanted result.
map_if_eager(self, condition, f) ==
    zip_map(self, condition,
            [a \in DOMAIN f, c \in BOOLEAN |->
                LET r == f[a]
                IN  IF c THEN r ELSE [val |-> a, calls |-> r.calls]])

map_if(self, condition, f) ==
    zip_map(self, condition,
            [a \in DOMAIN f, c \in BOOLEAN |-> IF c THEN f[a] ELSE Ret(a)])

\* ---------------------------------------------------------------------
\* Orientation accessors (direction module)
\* ---------------------------------------------------------------------

\* Orientation::get_ref(&self, &mut XY<T>) -> &mut T
Orientation_get_ref(o, xy) ==
    CASE o = "Horizontal" -> "x"
      [] o = "Vertical" -> "y"

\* Orientation::get(&self, &XY<T>) -> T
Orientation_get(o, xy) ==
    CASE o = "Horizontal" -> xy.x
      [] o = "Vertical" -> xy.y

\* ---------------------------------------------------------------------
\* impl<T: Clone> XY<T>
\* ---------------------------------------------------------------------

\* with_axis that returns the clone without storing value.
with_axis_no_store(self, o, value) ==
    LET new_ == clone(self)
    IN  new_

with_axis(self, o, value) ==
    LET new_ == clone(self)
    IN  [new_ EXCEPT ![Orientation_get_ref(o, new_)] = value]

\* set_axis_from that reads the value from self instead of other.
set_axis_from_self(self, o, other_) ==
    [self EXCEPT ![Orientation_get_ref(o, self)] = Orientation_get(o, self)]

\* The value of *self after the call.
set_axis_from(self, o, other_) ==
    [self EXCEPT ![Orientation_get_ref(o, self)] = Orientation_get(o, other_)]

with_axis_from(self, o, other_) ==
    LET new_ == clone(self)
    IN  set_axis_from(new_, o, other_)

\* ---------------------------------------------------------------------
\* impl<T> XY<Option<T>>
\* ---------------------------------------------------------------------

\* unwrap_or that takes the default from the opposite axis.
unwrap_or_crossed(self, other_) ==
    zip_map(self, new(other_.y, other_.x),
            [opt \in {self.x, self.y}, d \in {other_.x, other_.y} |->
                Ret(Option_unwrap_or(opt, d))]).val

unwrap_or(self, other_) ==
    zip_map(self, other_,
            [opt \in {self.x, self.y}, d \in {other_.x, other_.y} |->
                Ret(Option_unwrap_or(opt, d))]).val

\* ---------------------------------------------------------------------
\* impl XY<bool>
\* ---------------------------------------------------------------------

\* any that folds with the conjunction.
any_with_and(self) == fold(self, BitAnd_bitand).val

any(self) == fold(self, BitOr_bitor).val

both(self) == fold(self, BitAnd_bitand).val

\* select with the flag inverted.
select_inverted(self, other_) ==
    zip_map(self, other_,
            [keep \in BOOLEAN, o \in {other_.x, other_.y} |->
                IF keep THEN Ret(None) ELSE Ret(Some(o))]).val

select(self, other_) ==
    zip_map(self, other_,
            [keep \in BOOLEAN, o \in {other_.x, other_.y} |->
                IF keep THEN Ret(Some(o)) ELSE Ret(None)]).val

select_or(self, if_true, if_false) ==
    unwrap_or(select(self, if_true), if_false)

\* impl<T: Copy> XY<T>
both_from(value) == new(value, value)

\* impl<T> From<(T, T)> for XY<T>
from(p) == new(p[1], p[2])

\* ---------------------------------------------------------------------
\* State machine: a caller holding two pairs and a boolean pair, applying
\* one operation per step.  op/inp/res/calls record the last call.
\* ---------------------------------------------------------------------

Init ==
    /\ \E a \in Val, b \in Val : v = new(a, b)
    /\ \E a \in Val, b \in Val : other = new(a, b)
    /\ \E a \in BOOLEAN, b \in BOOLEAN : cond = new(a, b)
    /\ op = "new"
    /\ inp = [self |-> v]
    /\ res = v
    /\ calls = <<>>
    /\ written = [o \in Orientation |-> IF o = "Horizontal" THEN v.x ELSE v.y]

Pure == UNCHANGED <<v, other, cond, written>>

Done(name, args, result, trace) ==
    /\ op' = name
    /\ inp' = args
    /\ res' = result
    /\ calls' = trace

Map ==
    \E fn \in UnaryFns :
        LET r == map(v, Closure(fn))
        IN  Done("map", [self |-> v, f |-> fn], r.val, r.calls) /\ Pure

MapIf ==
    \E fn \in UnaryFns :
        LET r == map_if(v, cond, Closure(fn))
        IN  Done("map_if", [self |-> v, condition |-> cond, f |-> fn],
                 r.val, r.calls) /\ Pure

Fold ==
    \E fn \in BinaryFns :
        LET r == fold(v, Closure2(fn))
        IN  Done("fold", [self |-> v, f |-> fn], r.val, r.calls) /\ Pure

Pair ==
    Done("pair", [self |-> v], pair(v), <<>>) /\ Pure

From ==
    \E p \in Val \X Val :
        Done("from", [p |-> p], from(p), <<>>) /\ Pure

Zip ==
    Done("zip", [self |-> v, other |-> other], zip(v, other), <<>>) /\ Pure

ZipMap ==
    \E fn \in BinaryFns :
        LET r == zip_map(v, other, Closure2(fn))
        IN  Done("zip_map", [self |-> v, other |-> other, f |-> fn],
                 r.val, r.calls) /\ Pure

WithAxis ==
    \E o \in Orientation, w \in Val :
        Done("with_axis", [self |-> v, o |-> o, value |-> w],
             with_axis(v, o, w), <<>>) /\ Pure

WithAxisFrom ==
    \E o \in Orientation :
        Done("with_axis_from", [self |-> v, o |-> o, other |-> other],
             with_axis_from(v, o, other), <<>>) /\ Pure

\* `&mut self`: v is replaced by the value the call leaves in it.
SetAxisFrom ==
    \E o \in Orientation :
        /\ v' = set_axis_from(v, o, other)
        /\ Done("set_axis_from", [self |-> v, o |-> o, other |-> other],
                <<>>, <<>>)
        /\ UNCHANGED <<other, cond, written>>

\* The XY<Option<T>> receiver: cond marks the present axes, v their values.
OptOf(mask, values) ==
    new(IF mask.x THEN Some(values.x) ELSE None,
        IF mask.y THEN Some(values.y) ELSE None)

UnwrapOr ==
    LET opt == OptOf(cond, v)
    IN  Done("unwrap_or", [self |-> opt, other |-> other],
             unwrap_or(opt, other), <<>>) /\ Pure

Any ==
    Done("any", [self |-> cond], any(cond), <<>>) /\ Pure

Both ==
    Done("both", [self |-> cond], both(cond), <<>>) /\ Pure

Select ==
    Done("select", [self |-> cond, other |-> v], select(cond, v), <<>>) /\ Pure

SelectOr ==
    Done("select_or", [self |-> cond, if_true |-> v, if_false |-> other],
         select_or(cond, v, other), <<>>) /\ Pure

BothFrom ==
    \E b \in BOOLEAN :
        Done("both_from", [value |-> b], both_from(b), <<>>) /\ Pure

Next ==
    \/ Map
    \/ MapIf
    \/ Fold
    \/ Pair
    \/ From
    \/ Zip
    \/ ZipMap
    \/ WithAxis
    \/ WithAxisFrom
    \/ SetAxisFrom
    \/ UnwrapOr
    \/ Any
    \/ Both
    \/ Select
    \/ SelectOr
    \/ BothFrom

Spec == Init /\ [][Next]_vars

\* ---------------------------------------------------------------------
\* Axis-indexed access: reads through get, writes through get_mut.
\* written[o] is the value last stored through get_mut(o), or the value the
\* pair was built with.
\* ---------------------------------------------------------------------

Get ==
    \E o \in Orientation :
        Done("get", [self |-> v, o |-> o], get(v, o), <<>>) /\ Pure

GetMutWrite ==
    \E o \in Orientation, w \in Val :
        /\ v' = [v EXCEPT ![get_mut(v, o)] = w]
        /\ written' = [written EXCEPT ![o] = w]
        /\ Done("get_mut", [self |-> v, o |-> o, value |-> w], <<>>, <<>>)
        /\ UNCHANGED <<other, cond>>

NextAccess ==
    \/ Get
    \/ GetMutWrite

SpecAccess == Init /\ [][NextAccess]_vars

\* ---------------------------------------------------------------------
\* Properties
\* ---------------------------------------------------------------------

\* C1: conversion between the container and an ordered pair round-trips in
\* both directions: from(v.pair()) = v and from(p).pair() = p, with x the
\* first component and y the second.
C1_PairRoundTrip ==
    /\ op = "pair" =>
        /\ res = <<inp.self.x, inp.self.y>>
        /\ from(res) = inp.self
    /\ op = "from" =>
        /\ res.x = inp.p[1]
        /\ res.y = inp.p[2]
        /\ pair(res) = inp.p

C1_Witness ==
    /\ op = "pair"
    /\ inp.self = new(1, 2)
    /\ res = <<1, 2>>

\* C2: zip_map combines same-axis values only, self's value first and
\* other's second: for each axis o, result.get(o) = f(self.get(o),
\* other.get(o)).
C2_ZipMapSameAxis ==
    op = "zip_map" =>
        /\ \A o \in Orientation :
               get(res, o) = inp.f[get(inp.self, o), get(inp.other, o)]
        /\ res.x = inp.f[inp.self.x, inp.other.x]
        /\ res.y = inp.f[inp.self.y, inp.other.y]

C2_Witness ==
    /\ op = "zip_map"
    /\ inp.f = Sub
    /\ inp.self = new(0, 1)
    /\ inp.other = new(2, 3)
    /\ res = new(0 - 2, 0 - 2)

\* C3: map applies f to each axis independently: v.map(f) is
\* new(f(v.x), f(v.y)).
C3_MapPerAxis ==
    op = "map" =>
        /\ res.x = inp.f[inp.self.x]
        /\ res.y = inp.f[inp.self.y]
        /\ res = new(inp.f[inp.self.x], inp.f[inp.self.y])

C3_Witness ==
    /\ op = "map"
    /\ inp.f = Succ
    /\ inp.self = new(1, 3)
    /\ res = new(2, 4)

\* C4: map_if yields f(value) on the axes whose flag is true and the
\* original value on the others, and invokes f only on the axes whose flag
\* is true; with no flag set the result is v and f is never called, with both
\* set the result is v.map(f).
C4_MapIf ==
    op = "map_if" =>
        /\ res.x = IF inp.condition.x THEN inp.f[inp.self.x] ELSE inp.self.x
        /\ res.y = IF inp.condition.y THEN inp.f[inp.self.y] ELSE inp.self.y
        /\ calls = (IF inp.condition.x THEN <<inp.self.x>> ELSE <<>>)
                   \o (IF inp.condition.y THEN <<inp.self.y>> ELSE <<>>)
        /\ inp.condition = new(FALSE, FALSE) =>
               res = inp.self /\ calls = <<>>
        /\ inp.condition = new(TRUE, TRUE) =>
               res = map(inp.self, Closure(inp.f)).val

C4_Witness ==
    /\ op = "map_if"
    /\ inp.f = Negate
    /\ inp.self = new(3, 2)
    /\ inp.condition = new(TRUE, FALSE)
    /\ res = new(0 - 3, 2)
    /\ calls = <<3>>

\* C5: c.select_or(a, b) equals c.select(a).unwrap_or(b); on each axis it is
\* a's value when c's flag for that axis is true, else b's value for the same
\* axis, and it is defined for all four flag combinations.
C5_SelectOr ==
    op = "select_or" =>
        /\ res = unwrap_or(select(inp.self, inp.if_true), inp.if_false)
        /\ res.x = IF inp.self.x THEN inp.if_true.x ELSE inp.if_false.x
        /\ res.y = IF inp.self.y THEN inp.if_true.y ELSE inp.if_false.y
        /\ res \in XYVal

C5_Witness ==
    /\ op = "select_or"
    /\ inp.self = new(TRUE, FALSE)
    /\ inp.if_true = new(1, 2)
    /\ inp.if_false = new(0, 3)
    /\ res = new(1, 3)

\* C6: unwrap_or resolves each axis independently: Some(u) yields u, None
\* yields the default of the same axis; the result is always a plain pair,
\* also when both axes are None.
C6_UnwrapOr ==
    op = "unwrap_or" =>
        /\ res.x = IF inp.self.x = None THEN inp.other.x ELSE inp.self.x[1]
        /\ res.y = IF inp.self.y = None THEN inp.other.y ELSE inp.self.y[1]
        /\ res \in XYVal

C6_Witness ==
    /\ op = "unwrap_or"
    /\ inp.self = new(Some(1), None)
    /\ inp.other = new(2, 3)
    /\ res = new(1, 3)

\* C7: v.with_axis(o, w) returns a pair whose axis o is w and whose other
\* axis is v's, and v itself is unchanged.
C7_WithAxis ==
    op = "with_axis" =>
        /\ inp.o = "Horizontal" => res = new(inp.value, inp.self.y)
        /\ inp.o = "Vertical" => res = new(inp.self.x, inp.value)
        /\ v = inp.self

C7_Witness ==
    /\ op = "with_axis"
    /\ inp.self = new(1, 2)
    /\ inp.o = "Vertical"
    /\ inp.value = 3
    /\ res = new(1, 3)
    /\ v = new(1, 2)

\* C8: after v.set_axis_from(o, other), v's axis o is other's axis o, v's
\* other axis and other are unchanged; v.with_axis_from(o, other) returns the
\* pair set_axis_from would leave in v, and leaves v unchanged.
C8_AxisFrom ==
    /\ op = "set_axis_from" =>
        /\ inp.o = "Horizontal" => v = new(inp.other.x, inp.self.y)
        /\ inp.o = "Vertical" => v = new(inp.self.x, inp.other.y)
        /\ other = inp.other
    /\ op = "with_axis_from" =>
        /\ res = set_axis_from(inp.self, inp.o, inp.other)
        /\ inp.o = "Horizontal" => res = new(inp.other.x, inp.self.y)
        /\ inp.o = "Vertical" => res = new(inp.self.x, inp.other.y)
        /\ v = inp.self
        /\ other = inp.other

C8_Witness ==
    /\ op = "set_axis_from"
    /\ inp.self = new(0, 1)
    /\ inp.other = new(2, 3)
    /\ inp.o = "Horizontal"
    /\ v = new(2, 1)

\* C9: get(Horizontal) reads x and get(Vertical) reads y; get_mut(o)
\* designates the field get(o) reads; after any sequence of writes through
\* get_mut each field holds the value last written to its own axis, or its
\* initial value, and a write through get_mut(o) leaves the other axis alone.
C9_AxisAccess ==
    /\ get(v, "Horizontal") = v.x
    /\ get(v, "Vertical") = v.y
    /\ \A o \in Orientation : v[get_mut(v, o)] = get(v, o)
    /\ \A o \in Orientation : get(v, o) = written[o]
    /\ v.x = written["Horizontal"]
    /\ v.y = written["Vertical"]
    /\ op = "get" => res = written[inp.o] /\ v = inp.self
    /\ op = "get_mut" =>
        /\ inp.o = "Horizontal" => v = new(inp.value, inp.self.y)
        /\ inp.o = "Vertical" => v = new(inp.self.x, inp.value)

C9_Witness ==
    /\ op = "get_mut"
    /\ inp.self = new(3, 1)
    /\ inp.o = "Vertical"
    /\ inp.value = 2
    /\ v = new(3, 2)
    /\ written = [o \in Orientation |-> IF o = "Horizontal" THEN 3 ELSE 2]

\* C10: any() is the disjunction and both() the conjunction of the two
\* flags, so both() implies any(); both_from(true).any() is true and
\* both_from(false).both() is false; neither call changes the pair.
C10_AnyBoth ==
    /\ op = "any" => res = (inp.self.x \/ inp.self.y) /\ cond = inp.self
    /\ op = "both" => res = (inp.self.x /\ inp.self.y) /\ cond = inp.self
    /\ both(cond) => any(cond)
    /\ op = "both_from" =>
        /\ res = new(inp.value, inp.value)
        /\ inp.value => any(res) = TRUE
        /\ ~inp.value => both(res) = FALSE

C10_Witness ==
    /\ op = "any"
    /\ inp.self = new(TRUE, FALSE)
    /\ res = TRUE
    /\ cond = new(TRUE, FALSE)

====
